---- MODULE Spec2Model ----
(***************************************************************************)
(* Causal audit, thread root, verifiable logical clock and reward split of *)
(* the ChaosChain SDK (chaoschain_sdk/xmtp_client.py, verifier_agent.py    *)
(* and the reward arithmetic of the integration examples).                 *)
(*                                                                         *)
(* Python str values are sequences of one-character strings, so that       *)
(* concatenation, ordering and substring tests are computed and not        *)
(* assumed.  keccak is a free constructor: two digests are equal exactly   *)
(* when their preimages are equal.                                         *)
(***************************************************************************)
EXTENDS Integers, Sequences, FiniteSets, TLC

VARIABLES
    \* ---- environment of one audit
    conversation,      \* raw transport messages of the conversation
    stored,            \* what the blob store holds under the package's id
    xmtp_manager,      \* sdk.xmtp_manager is set
    custom_dimensions, \* the custom_dimensions argument, set where it is read
    \* ---- VerifierAgent.perform_causal_audit
    pc,                \* position inside perform_causal_audit
    evidence_package,  \* local: the fetched package
    xmtp_messages,     \* local: the fetched thread
    thread_root_valid, \* local: "unbound" until assigned
    causality_valid,   \* local: "unbound" until assigned
    signatures_valid,  \* local: "unbound" until assigned
    errors,            \* local: list of error strings
    scores,            \* local: {agent_id: score vector}
    stages,            \* history: the steps of the audit that were executed
    fetch_mode,        \* history: outcome of the thread fetch ("" before it)
    result,            \* the returned AuditResult (None before the return)
    \* ---- XMTPManager pure functions applied to a message list
    messages,          \* the message list handed to the manager
    permuted,          \* a reordering of the same messages
    tampered,          \* the same thread with one message altered
    outputs,           \* values returned by the manager, by call name
    hash_list,            \* the hash list handed to _compute_merkle_root
    \* ---- compute_final_rewards
    quality_scalars,   \* {agent_id: quality} in 1/Unit
    contribution_weights, \* {agent_id: weight} in 1/Unit
    total_escrow,      \* budget, whole currency units
    rewards,           \* {agent_id: reward} in 1/Unit, None before the call
    \* ---- DKG.compute_contribution_weights
    dkg,               \* the graph: nodes in insertion order
    method,            \* the method argument ("" before the call)
    weights,           \* {author: weight} as rationals, empty before the call
    \* ---- consensus over the verifiers' score vectors
    submissions,       \* revealed (stake, score vector) per verifier
    mad_multiple,      \* the configured multiple of the MAD
    consensus,         \* per dimension: aggregated score and outliers
    \* ---- DKGUtils
    nodes,             \* self.nodes: {node_id: GraphNode}
    edges,             \* self.edges: list of GraphEdge
    agent_contributions, \* self.agent_contributions: {agent_id: [node_id]}
    evidence,          \* history: the arguments of add_evidence_package, in call order
    returned,          \* history: what each call returned
    \* ---- _verify_thread_root applied to a declared root
    declared_root,     \* the expected_root argument
    recased_root,      \* the same string with letters in another case
    \* ---- verifier_agent_loop
    block_number,      \* w3.eth.block_number
    events,            \* the WorkSubmitted events of the studio, in block order
    reveal_delay,      \* the reveal_delay argument, seconds
    time_now,          \* time.time(), seconds
    last_block,        \* local: last block scanned
    pending_reveals,   \* local: commitments waiting to be revealed
    iteration,         \* history: iterations of the loop completed
    stopped,           \* the loop was left by KeyboardInterrupt
    commit_log,        \* history: the calls of commit_scores
    reveal_log         \* history: the calls of reveal_scores

vars == <<conversation, stored, xmtp_manager, custom_dimensions, pc, evidence_package, xmtp_messages,
          thread_root_valid, causality_valid, signatures_valid, errors,
          scores, stages, fetch_mode, result, messages, permuted, tampered, outputs, hash_list,
          quality_scalars, contribution_weights, total_escrow, rewards,
          dkg, method, weights, submissions, mad_multiple, consensus,
          nodes, edges, agent_contributions, evidence, returned,
          declared_root, recased_root,
          block_number, events, reveal_delay, time_now, last_block, pending_reveals,
          iteration, stopped, commit_log, reveal_log>>

auditVars == <<conversation, stored, xmtp_manager, custom_dimensions, pc, evidence_package, xmtp_messages,
               thread_root_valid, causality_valid, signatures_valid, errors,
               scores, stages, fetch_mode, result>>
managerVars == <<messages, permuted, tampered, outputs, hash_list>>
rewardVars == <<quality_scalars, contribution_weights, total_escrow, rewards>>
attributionVars == <<dkg, method, weights>>
consensusVars == <<submissions, mad_multiple, consensus>>
utilsVars == <<nodes, edges, agent_contributions, evidence, returned>>
rootCheckVars == <<declared_root, recased_root>>
loopVars == <<block_number, events, reveal_delay, time_now, last_block, pending_reveals,
              iteration, stopped, commit_log, reveal_log>>
graphVars == <<attributionVars, consensusVars, utilsVars, rootCheckVars, loopVars>>

-----------------------------------------------------------------------------
\* Bounds of the model

MaxMsgs == 2        \* longest conversation on the transport
MaxList == 3        \* longest message list handed to compute_thread_root
MaxTime == 1        \* largest timestamp
MaxBudget == 3      \* largest escrow
MaxAgents == 2      \* most participants in a reward split
MaxNodes == 3       \* most nodes of a graph handed to the attribution
MaxVerifiers == 3   \* most verifiers revealing a score vector
MaxStake == 2       \* largest stake of a verifier
MaxCalls == 2       \* most calls of add_evidence_package
MaxThread == 2      \* longest message list handed to the scoring
MaxHashes == 4      \* longest hash list handed to _compute_merkle_root
MaxBlock == 2       \* highest block of the chain
MaxWorks == 2       \* most WorkSubmitted events
MaxDelay == 2       \* largest reveal_delay, in sleeps of the loop
MaxElapsed == 1     \* longest time the work of one iteration takes, seconds
MaxIterations == 3  \* most iterations of verifier_agent_loop

-----------------------------------------------------------------------------
\* Python values

\* Python None; no str is equal to it (every str is a sequence of
\* one-character strings).
None == <<"<None>">>

\* The characters in use, in code point order.
Alphabet == <<"0", "1", "2", "3", "4", "5", "6", "7", "8", "9",
              "A", "B", "C", "m", "p", "t", "x", "{", "|", "}">>

Ord(c) == CHOOSE i \in 1..Len(Alphabet) : Alphabet[i] = c

\* str < str
RECURSIVE StrLess(_, _)
StrLess(a, b) ==
    IF b = <<>> THEN FALSE
    ELSE IF a = <<>> THEN TRUE
    ELSE IF Head(a) = Head(b) THEN StrLess(Tail(a), Tail(b))
    ELSE Ord(Head(a)) < Ord(Head(b))

\* str(int) for a non-negative int
RECURSIVE Decimal(_)
Decimal(n) ==
    IF n < 10 THEN <<Alphabet[n + 1]>>
    ELSE Decimal(n \div 10) \o <<Alphabet[(n % 10) + 1]>>

\* Python truthiness of an Optional[str]
Truthy(s) == s # None /\ s # <<>>

\* bytes(32)
Zero32 == <<"zero32">>

\* keccak(text=s): digest of a str
KeccakText(s) == <<"keccak", s>>

\* keccak(a + b): digest of the concatenation of two 32-byte values
KeccakPair(a, b) == <<"keccak", a, b>>

\* A hex string <<"hex", prefix, digest, case>>: an optional prefix ("",
\* "0x" or "0X"), the digest whose digits it spells and the letter case of
\* the digits ("lower", "upper", "mixed").
Hex(prefix, digest, case) == <<"hex", prefix, digest, case>>
HexPrefix(h) == h[2]
HexDigits(h) == h[3]
HexCase(h) == h[4]

\* bytes.hex()
BytesHex(b) == Hex("", b, "lower")

\* str.lower() on a hex string; a prefix that was made part of the digits is
\* lowered with them
Lower(h) ==
    LET low(p) == IF p = "0X" THEN "0x" ELSE p
        d == HexDigits(h)
    IN  Hex(low(HexPrefix(h)),
            IF d[1] = "prefixed" THEN <<"prefixed", low(d[2]), d[3]>> ELSE d,
            "lower")

\* "0x" + h; the characters of an existing prefix become part of the digits
Prepend0x(h) ==
    IF HexPrefix(h) = "" THEN Hex("0x", HexDigits(h), HexCase(h))
    ELSE Hex("0x", <<"prefixed", HexPrefix(h), HexDigits(h)>>, HexCase(h))

-----------------------------------------------------------------------------
\* XMTPMessage and XMTPManager (xmtp_client.py)

Message(id, author, content, timestamp, parent_id, signature, vlc) ==
    [id |-> id, author |-> author, content |-> content,
     timestamp |-> timestamp, parent_id |-> parent_id,
     signature |-> signature, vlc |-> vlc]

\* _compute_message_hash: keccak of "author|timestamp|id|content|parent"
_compute_message_hash(msg) ==
    KeccakText(msg.author \o <<"|">> \o Decimal(msg.timestamp) \o <<"|">>
               \o msg.id \o <<"|">> \o msg.content \o <<"|">>
               \o (IF Truthy(msg.parent_id) THEN msg.parent_id ELSE <<>>))

\* One level that leaves an odd last hash unpaired
RECURSIVE MerkleLevelCarry(_)
MerkleLevelCarry(level) ==
    IF level = <<>> THEN <<>>
    ELSE IF Len(level) = 1 THEN <<level[1]>>
    ELSE <<KeccakPair(level[1], level[2])>> \o MerkleLevelCarry(Tail(Tail(level)))

\* One level of the Merkle tree: adjacent pairs, an odd last hash with itself
RECURSIVE MerkleLevel(_)
MerkleLevel(level) ==
    IF level = <<>> THEN <<>>
    ELSE IF Len(level) = 1 THEN <<KeccakPair(level[1], level[1])>>
    ELSE <<KeccakPair(level[1], level[2])>> \o MerkleLevel(Tail(Tail(level)))

RECURSIVE _compute_merkle_root(_)
_compute_merkle_root(hashes) ==
    IF Len(hashes) = 0 THEN Zero32
    ELSE IF Len(hashes) = 1 THEN hashes[1]
    ELSE _compute_merkle_root(MerkleLevel(hashes))

\* The order with the id left out of the key
KeyLessTimestampOnly(a, b) == a.timestamp < b.timestamp

\* key=lambda m: (m.timestamp, m.id), compared as Python tuples
KeyLess(a, b) ==
    \/ a.timestamp < b.timestamp
    \/ a.timestamp = b.timestamp /\ StrLess(a.id, b.id)

\* key=lambda m: m.timestamp
TimeLess(a, b) == a.timestamp < b.timestamp

\* The order of a sort key: "timestamp", or "timestamp_id"
Less(key, a, b) == IF key = "timestamp" THEN TimeLess(a, b) ELSE KeyLess(a, b)

\* Insert m behind every element whose key is not greater (stable)
RECURSIVE InsertBy(_, _, _)
InsertBy(key, m, s) ==
    IF s = <<>> THEN <<m>>
    ELSE IF Less(key, m, Head(s)) THEN <<m>> \o s
    ELSE <<Head(s)>> \o InsertBy(key, m, Tail(s))

\* sorted() and list.sort(): stable sort
RECURSIVE SortedBy(_, _)
SortedBy(key, s) ==
    IF s = <<>> THEN <<>>
    ELSE InsertBy(key, s[Len(s)], SortedBy(key, SubSeq(s, 1, Len(s) - 1)))

\* The root of an empty thread taken as the digest of the empty text
compute_thread_root_of_text(msgs) ==
    IF msgs = <<>> THEN KeccakText(<<>>)
    ELSE LET sorted_messages == SortedBy("timestamp_id", msgs)
             message_hashes == [i \in 1..Len(sorted_messages) |->
                                   _compute_message_hash(sorted_messages[i])]
         IN  _compute_merkle_root(message_hashes)

compute_thread_root(msgs) ==
    IF msgs = <<>> THEN Zero32
    ELSE LET sorted_messages == SortedBy("timestamp_id", msgs)
             message_hashes == [i \in 1..Len(sorted_messages) |->
                                   _compute_message_hash(sorted_messages[i])]
         IN  _compute_merkle_root(message_hashes)

\* message_map = {msg.id: msg for msg in messages}: the last message wins
HasId(msgs, id) == \E i \in 1..Len(msgs) : msgs[i].id = id
MessageMap(msgs, id) ==
    msgs[CHOOSE i \in 1..Len(msgs) :
            /\ msgs[i].id = id
            /\ \A j \in (i + 1)..Len(msgs) : msgs[j].id # id]

verify_causality(msgs) ==
    \A i \in 1..Len(msgs) :
        Truthy(msgs[i].parent_id) =>
            /\ HasId(msgs, msgs[i].parent_id)
            /\ msgs[i].timestamp >= MessageMap(msgs, msgs[i].parent_id).timestamp

\* bytes.fromhex(vlc[2:] if vlc.startswith('0x') else vlc)
VlcBytes(vlc) == HexDigits(vlc)

\* The first message with the parent's id and a stored vlc supplies the clock
compute_vlc(message, msgs) ==
    LET cands == {i \in 1..Len(msgs) :
                     msgs[i].id = message.parent_id /\ Truthy(msgs[i].vlc)}
        first == CHOOSE i \in cands : \A j \in cands : i <= j
        parent_vlc == IF Truthy(message.parent_id) /\ cands # {}
                      THEN VlcBytes(msgs[first].vlc)
                      ELSE Zero32
    IN  KeccakPair(_compute_message_hash(message), parent_vlc)

-----------------------------------------------------------------------------
\* XMTPManager.get_thread

\* A raw transport message
Raw(id, sender_address, sent_at, content) ==
    [id |-> id, sender_address |-> sender_address, sent_at |-> sent_at,
     content |-> content]

\* Message contents.  "{}" is a JSON object without parent_id, "{p<id>}"
\* stands for {"parent_id": "<id>"}, "1" is JSON that is not an object and
\* "t" is plain text, which json.loads rejects.
ContentPlain == <<"t">>
ContentNumber == <<"1">>
ContentObject == <<"{", "}">>
ContentReply(parent) == <<"{", "p">> \o parent \o <<"}">>

\* json.loads(content) succeeds
JsonParses(c) ==
    \/ c = ContentNumber
    \/ Len(c) >= 2 /\ c[1] = "{" /\ c[Len(c)] = "}"

\* content_data.get("parent_id") if isinstance(content_data, dict) else None
JsonParentId(c) ==
    IF c[1] = "{" /\ Len(c) >= 3 /\ c[2] = "p" THEN SubSeq(c, 3, Len(c) - 1)
    ELSE None

\* The messages that parse, in transport order; a message whose content
\* does not parse is skipped
RECURSIVE ConvertRaw(_)
ConvertRaw(raw) ==
    IF raw = <<>> THEN <<>>
    ELSE LET m == Head(raw)
         IN  (IF JsonParses(m.content)
              THEN <<Message(m.id, m.sender_address, m.content, m.sent_at,
                             JsonParentId(m.content), None, None)>>
              ELSE <<>>) \o ConvertRaw(Tail(raw))

\* mode: "ok", or the place where the fetch gives up ("no_client",
\* "no_conversation", "messages_raise")
get_thread(mode, raw) ==
    IF mode # "ok" THEN <<>>
    ELSE SortedBy("timestamp", ConvertRaw(raw))

-----------------------------------------------------------------------------
\* Rational numbers <<numerator, denominator>> in lowest terms stand for the
\* Python floats of the scoring code

RECURSIVE GCD(_, _)
GCD(a, b) == IF b = 0 THEN a ELSE GCD(b, a % b)

Rat(n, d) == LET g == GCD(IF n < 0 THEN -n ELSE n, d) IN <<n \div g, d \div g>>
RatLeq(a, b) == a[1] * b[2] <= b[1] * a[2]
RatMin(a, b) == IF RatLeq(a, b) THEN a ELSE b
RatMax(a, b) == IF RatLeq(a, b) THEN b ELSE a
RatScale(k, a) == Rat(k * a[1], a[2])
RatAdd(a, b) == Rat(a[1] * b[2] + b[1] * a[2], a[2] * b[2])
RatDiv(a, b) == Rat(a[1] * b[2], a[2] * b[1])

-----------------------------------------------------------------------------
\* VerifierAgent scoring (verifier_agent.py)

\* a in b, for two str
IsSubstr(a, b) ==
    \E i \in 0..(Len(b) - Len(a)) : SubSeq(b, i + 1, i + Len(a)) = a

\* agent_messages = [msg for msg in messages if agent_id in msg.author]
AgentMessages(msgs, agent_id) ==
    LET ByAgent(m) == IsSubstr(agent_id, m.author) IN SelectSeq(msgs, ByAgent)

_compute_initiative(msgs, agent_id) ==
    LET mine == AgentMessages(msgs, agent_id)
        Original(m) == m.parent_id = None
    IN  IF Len(mine) = 0 THEN Rat(0, 1)
        ELSE Rat(Len(SelectSeq(mine, Original)), Len(mine))

\* Collaboration that counts the messages whose parent_id is truthy
_compute_collaboration_truthy(msgs, agent_id) ==
    LET mine == AgentMessages(msgs, agent_id)
        Reply(m) == Truthy(m.parent_id)
    IN  IF Len(mine) = 0 THEN Rat(0, 1)
        ELSE Rat(Len(SelectSeq(mine, Reply)), Len(mine))

_compute_collaboration(msgs, agent_id) ==
    LET mine == AgentMessages(msgs, agent_id)
        Reply(m) == m.parent_id # None
    IN  IF Len(mine) = 0 THEN Rat(0, 1)
        ELSE Rat(Len(SelectSeq(mine, Reply)), Len(mine))

\* The recursion of _get_message_depth ends with RecursionError (-1) when
\* it goes deeper than any chain of distinct messages can be
RecursionError == -1

RECURSIVE DepthWithin(_, _, _)
DepthWithin(message, msgs, fuel) ==
    IF message.parent_id = None THEN 1
    ELSE IF ~HasId(msgs, message.parent_id) THEN 1
    ELSE IF fuel = 0 THEN RecursionError
    ELSE LET d == DepthWithin(MessageMap(msgs, message.parent_id), msgs, fuel - 1)
         IN  IF d = RecursionError THEN RecursionError ELSE 1 + d

\* A depth that does not follow the parent
_get_message_depth_flat(message, msgs) == 1

_get_message_depth(message, msgs) == DepthWithin(message, msgs, Len(msgs))

RECURSIVE SumSeq(_)
SumSeq(s) == IF s = <<>> THEN 0 ELSE Head(s) + SumSeq(Tail(s))

\* _compute_reasoning_depth raises: the depth of one of the agent's
\* messages raises
DepthRaises(msgs, agent_id) ==
    LET mine == AgentMessages(msgs, agent_id)
    IN  \E i \in 1..Len(mine) : _get_message_depth(mine[i], msgs) = RecursionError

\* The returned value, for a call that does not raise
_compute_reasoning_depth(msgs, agent_id) ==
    LET mine == AgentMessages(msgs, agent_id)
        depths == [i \in 1..Len(mine) |-> _get_message_depth(mine[i], msgs)]
    IN  IF Len(mine) = 0 THEN Rat(0, 1)
        ELSE RatMin(Rat(SumSeq(depths), 10 * Len(mine)), Rat(1, 1))

_compute_compliance(msgs, agent_id) == Rat(1, 1)

_compute_efficiency(msgs, agent_id) ==
    LET mine == SortedBy("timestamp", AgentMessages(msgs, agent_id))
        diffs == [i \in 1..(Len(mine) - 1) |-> mine[i + 1].timestamp - mine[i].timestamp]
    IN  IF Len(mine) < 2 THEN Rat(1, 1)
        ELSE RatMax(Rat(0, 1),
                    Rat(3600 * Len(diffs) - SumSeq(diffs), 3600 * Len(diffs)))

_compute_custom_dimension(msgs, agent_id, dimension) == Rat(3, 4)

\* str(participant.get("agent_id", participant.get("address", "")))
AgentIdOf(participant) ==
    IF participant.agent_id # None THEN participant.agent_id
    ELSE IF participant.address # None THEN participant.address
    ELSE <<>>

AgentIds(participants) == {AgentIdOf(participants[i]) : i \in 1..Len(participants)}

DefaultScores == <<Rat(70, 1), Rat(70, 1), Rat(70, 1), Rat(100, 1), Rat(70, 1)>>

ScoreVector(msgs, agent_id, dims) ==
    <<RatScale(100, _compute_initiative(msgs, agent_id)),
      RatScale(100, _compute_collaboration(msgs, agent_id)),
      RatScale(100, _compute_reasoning_depth(msgs, agent_id)),
      RatScale(100, _compute_compliance(msgs, agent_id)),
      RatScale(100, _compute_efficiency(msgs, agent_id))>>
    \o (IF dims = None THEN <<>>
        ELSE [i \in 1..Len(dims) |->
                RatScale(100, _compute_custom_dimension(msgs, agent_id, dims[i]))])

\* compute_multi_dimensional_scores raises (RecursionError)
ScoresRaise(msgs, participants) ==
    /\ msgs # <<>>
    /\ \E a \in AgentIds(participants) : DepthRaises(msgs, a)

\* The returned dict, for a call that does not raise
compute_multi_dimensional_scores(msgs, participants, dims) ==
    IF msgs = <<>>
    THEN [a \in AgentIds(participants) |-> DefaultScores]
    ELSE [a \in AgentIds(participants) |-> ScoreVector(msgs, a, dims)]

-----------------------------------------------------------------------------
\* VerifierAgent.perform_causal_audit (verifier_agent.py)

\* An evidence package: the keys the audit reads.  None is an absent
\* xmtp_thread_id or thread_root; an absent participants key reads as [].
\* empty marks what `not evidence_package` rejects: None and the dict
\* without keys.
Package(xmtp_thread_id, thread_root, participants) ==
    [empty |-> FALSE, xmtp_thread_id |-> xmtp_thread_id,
     thread_root |-> thread_root, participants |-> participants]

NoPackage ==
    [empty |-> TRUE, xmtp_thread_id |-> None, thread_root |-> None,
     participants |-> <<>>]

\* The test of the fetched package left out
PackageFalsyUnchecked(p) == FALSE

\* not evidence_package
PackageFalsy(p) == p.empty

\* evidence_package.get("participants", [])
ParticipantsOf(p) == p.participants

\* _fetch_evidence_package: the storage raises, or returns what it holds
_fetch_evidence_package(outcome) == IF outcome = "raise" THEN NoPackage ELSE stored

\* _fetch_xmtp_thread: no manager and a raising get_thread both give []
_fetch_xmtp_thread(mode) ==
    IF ~xmtp_manager THEN <<>>
    ELSE IF mode = "get_thread_raises" THEN <<>>
    ELSE get_thread(mode, conversation)

_verify_thread_root(msgs, expected_root) ==
    IF ~xmtp_manager THEN FALSE
    ELSE LET computed_hex == Prepend0x(BytesHex(compute_thread_root(msgs)))
             expected_hex == IF HexPrefix(expected_root) = "0x" THEN expected_root
                             ELSE Prepend0x(expected_root)
         IN  Lower(computed_hex) = Lower(expected_hex)

_verify_causality(msgs) == IF ~xmtp_manager THEN FALSE ELSE verify_causality(msgs)

_verify_signatures(msgs) == TRUE

\* keccak of the JSON text of the package
_compute_data_hash(p) == KeccakText(<<"json", p>>)

PyBool(b) == IF b THEN "True" ELSE "False"

EmptyDict == [k \in {} |-> None]

AuditResult(audit_passed, data_hash, sc, audit_report, errs) ==
    [audit_passed |-> audit_passed, data_hash |-> data_hash, scores |-> sc,
     audit_report |-> audit_report, errors |-> errs]

\* The handler returning no error at all
ExceptResultSilent(e) == AuditResult(FALSE, Zero32, EmptyDict, EmptyDict, <<>>)

\* except Exception as e: the result carries str(e) alone
ExceptResult(e) == AuditResult(FALSE, Zero32, EmptyDict, EmptyDict, <<e>>)

Return(r) ==
    /\ result' = r
    /\ pc' = "done"

\* The custom_dimensions argument: absent, or one studio dimension
CustomDimensionChoices == {None, <<"Accuracy">>}

\* Step 1: fetch the evidence package
FetchEvidencePackage ==
    /\ pc = "start"
    /\ \E outcome \in {"ok", "raise"} :
          LET fetched == _fetch_evidence_package(outcome)
          IN  /\ evidence_package' = fetched
              /\ IF PackageFalsy(fetched)
                 THEN Return(AuditResult(FALSE, Zero32, EmptyDict, EmptyDict,
                                         <<"Failed to fetch evidence package">>))
                 ELSE pc' = "fetch_thread" /\ UNCHANGED result
    /\ stages' = stages \cup {"fetch_package"}
    /\ UNCHANGED <<conversation, stored, xmtp_manager, custom_dimensions,
                   xmtp_messages, thread_root_valid, causality_valid,
                   signatures_valid, errors, scores, fetch_mode>>
    /\ UNCHANGED <<managerVars, rewardVars, graphVars>>

\* How a thread fetch ends: with the thread, or at one of the places where
\* get_thread gives up or raises
FetchModes == {"ok", "no_client", "no_conversation", "messages_raise",
               "get_thread_raises"}

\* What the audit can tell a caller about a fetch: "failed" when there is
\* no manager or client or the transport raised, "empty" when there is no
\* such conversation, "ok" otherwise
FetchOutcome(mode) ==
    IF ~xmtp_manager \/ mode \in {"no_client", "messages_raise", "get_thread_raises"}
    THEN "failed"
    ELSE IF mode = "no_conversation" THEN "empty" ELSE "ok"

\* Step 2: fetch the thread
FetchXmtpThread ==
    /\ pc = "fetch_thread"
    /\ IF ~Truthy(evidence_package.xmtp_thread_id)
       THEN /\ errors' = Append(errors, "No XMTP thread ID")
            /\ xmtp_messages' = <<>>
            /\ UNCHANGED <<stages, fetch_mode>>
       ELSE /\ \E mode \in FetchModes :
                  /\ xmtp_messages' = _fetch_xmtp_thread(mode)
                  /\ fetch_mode' = FetchOutcome(mode)
            /\ stages' = stages \cup {"fetch_thread"}
            /\ UNCHANGED errors
    /\ pc' = "verify_root"
    /\ UNCHANGED <<conversation, stored, xmtp_manager, custom_dimensions,
                   evidence_package, thread_root_valid, causality_valid,
                   signatures_valid, scores, result>>
    /\ UNCHANGED <<managerVars, rewardVars, graphVars>>

\* Step 3: verify the thread root
VerifyThreadRoot ==
    /\ pc = "verify_root"
    /\ IF xmtp_messages # <<>> /\ Truthy(evidence_package.thread_root)
       THEN LET valid == _verify_thread_root(xmtp_messages, evidence_package.thread_root)
            IN  /\ thread_root_valid' = PyBool(valid)
                /\ errors' = IF valid THEN errors
                             ELSE Append(errors, "Thread root mismatch")
                /\ stages' = stages \cup {"verify_root"}
       ELSE UNCHANGED <<thread_root_valid, errors, stages>>
    /\ pc' = "verify_causality"
    /\ UNCHANGED <<conversation, stored, xmtp_manager, custom_dimensions,
                   evidence_package, xmtp_messages, causality_valid,
                   signatures_valid, scores, fetch_mode, result>>
    /\ UNCHANGED <<managerVars, rewardVars, graphVars>>

\* Step 4: verify causality
VerifyCausality ==
    /\ pc = "verify_causality"
    /\ IF xmtp_messages # <<>>
       THEN LET valid == _verify_causality(xmtp_messages)
            IN  /\ causality_valid' = PyBool(valid)
                /\ errors' = IF valid THEN errors
                             ELSE Append(errors, "Causality check failed")
                /\ stages' = stages \cup {"verify_causality"}
       ELSE UNCHANGED <<causality_valid, errors, stages>>
    /\ pc' = "verify_signatures"
    /\ UNCHANGED <<conversation, stored, xmtp_manager, custom_dimensions,
                   evidence_package, xmtp_messages, thread_root_valid,
                   signatures_valid, scores, fetch_mode, result>>
    /\ UNCHANGED <<managerVars, rewardVars, graphVars>>

\* Step 5: verify signatures
VerifySignatures ==
    /\ pc = "verify_signatures"
    /\ LET valid == _verify_signatures(xmtp_messages)
       IN  /\ signatures_valid' = PyBool(valid)
           /\ errors' = IF valid THEN errors
                        ELSE Append(errors, "Signature verification failed")
    /\ stages' = stages \cup {"verify_signatures"}
    /\ pc' = "compute_scores"
    /\ UNCHANGED <<conversation, stored, xmtp_manager, custom_dimensions,
                   evidence_package, xmtp_messages, thread_root_valid,
                   causality_valid, scores, fetch_mode, result>>
    /\ UNCHANGED <<managerVars, rewardVars, graphVars>>

\* Step 6: compute the scores; an exception leaves through the handler
ComputeScores ==
    /\ pc = "compute_scores"
    /\ stages' = stages \cup {"compute_scores"}
    /\ custom_dimensions' \in CustomDimensionChoices
    /\ LET participants == ParticipantsOf(evidence_package)
       IN  IF ScoresRaise(xmtp_messages, participants)
           THEN Return(ExceptResult("RecursionError")) /\ UNCHANGED scores
           ELSE /\ scores' = compute_multi_dimensional_scores(
                                 xmtp_messages, participants, custom_dimensions')
                /\ pc' = "build_report"
                /\ UNCHANGED result
    /\ UNCHANGED <<conversation, stored, xmtp_manager,
                   evidence_package, xmtp_messages, thread_root_valid,
                   causality_valid, signatures_valid, errors, fetch_mode>>
    /\ UNCHANGED <<managerVars, rewardVars, graphVars>>

\* value if xmtp_messages else None
ReportValue(local) == IF xmtp_messages # <<>> THEN local ELSE "None"

\* Build the report and return; reading a local that was never assigned
\* raises UnboundLocalError, which leaves through the handler
BuildReport ==
    /\ pc = "build_report"
    /\ stages' = stages \cup {"build_report"}
    /\ IF ReportValue(thread_root_valid) = "unbound"
       THEN Return(ExceptResult("UnboundLocalError"))
       ELSE Return(AuditResult(
                Len(errors) = 0,
                _compute_data_hash(evidence_package),
                scores,
                [xmtp_messages_count |-> Len(xmtp_messages),
                 participants |-> ParticipantsOf(evidence_package),
                 thread_root_valid |-> ReportValue(thread_root_valid),
                 causality_valid |-> ReportValue(causality_valid),
                 signatures_valid |-> signatures_valid],
                errors))
    /\ UNCHANGED <<conversation, stored, xmtp_manager, custom_dimensions,
                   evidence_package, xmtp_messages, thread_root_valid,
                   causality_valid, signatures_valid, errors, scores, fetch_mode>>
    /\ UNCHANGED <<managerVars, rewardVars, graphVars>>

-----------------------------------------------------------------------------
\* The audits of the model: one conversation on the transport, one package
\* in the blob store

MsgId(i) == <<"m">> \o Decimal(i)
Authors == {<<"0", "x", "A">>, <<"0", "x", "B">>}

\* Contents that parse: an object without parent, or a reply to a message
ParsedContents == {ContentObject} \cup {ContentReply(MsgId(i)) : i \in 1..MaxMsgs}

\* Every kind of content, parsing or not
AllContents == ParsedContents \cup {ContentPlain, ContentNumber, ContentReply(<<>>)}

\* Conversations of n messages; the transport numbers the messages
Conversations(n, contents) ==
    {[i \in 1..n |-> Raw(MsgId(i), b[i].sender_address, b[i].sent_at, b[i].content)] :
        b \in [1..n -> [sender_address : Authors, sent_at : 0..MaxTime,
                        content : contents]]}

\* The conversations an audit meets
AllConversations(longest) == UNION {Conversations(n, ParsedContents) : n \in 0..longest}

ThreadId == <<"t", "1">>
ParticipantA == [agent_id |-> None, address |-> <<"0", "x", "A">>]
ParticipantB == [agent_id |-> <<"0", "x", "B">>, address |-> <<"0", "x", "B">>]
ParticipantLists == {<<>>, <<ParticipantA, ParticipantB>>}

\* A digest that is the root of no conversation of the model
OtherDigest == KeccakText(<<"x">>)

\* The roots a package declares for a conversation: none, the root of the
\* thread, or another digest
DeclaredRoots(conv) ==
    {None,
     Hex("0x", compute_thread_root(get_thread("ok", conv)), "lower"),
     Hex("0x", OtherDigest, "lower")}

StoredPackages(conv) ==
    {NoPackage} \cup {Package(t, r, p) : t \in {None, ThreadId},
                                  r \in DeclaredRoots(conv),
                                  p \in ParticipantLists}

ManagerIdle ==
    /\ messages = <<>>
    /\ permuted = <<>>
    /\ tampered = <<>>
    /\ outputs = EmptyDict
    /\ hash_list = <<>>

RewardIdle ==
    /\ quality_scalars = EmptyDict
    /\ contribution_weights = EmptyDict
    /\ total_escrow = 0
    /\ rewards = EmptyDict

AttributionIdle ==
    /\ dkg = <<>>
    /\ method = ""
    /\ weights = EmptyDict

ConsensusIdle ==
    /\ submissions = <<>>
    /\ mad_multiple = 0
    /\ consensus = <<>>

UtilsIdle ==
    /\ nodes = EmptyDict
    /\ edges = <<>>
    /\ agent_contributions = EmptyDict
    /\ evidence = <<>>
    /\ returned = <<>>

RootCheckIdle ==
    /\ declared_root = None
    /\ recased_root = None

LoopIdle ==
    /\ block_number = 0
    /\ events = <<>>
    /\ reveal_delay = 0
    /\ time_now = 0
    /\ last_block = 0
    /\ pending_reveals = <<>>
    /\ iteration = 0
    /\ stopped = FALSE
    /\ commit_log = <<>>
    /\ reveal_log = <<>>

GraphIdle == AttributionIdle /\ ConsensusIdle /\ UtilsIdle /\ RootCheckIdle /\ LoopIdle

AuditInit ==
    /\ xmtp_manager \in BOOLEAN
    /\ conversation \in (IF xmtp_manager THEN AllConversations(MaxMsgs) ELSE {<<>>})
    /\ stored \in StoredPackages(conversation)
    /\ custom_dimensions = None
    /\ pc = "start"
    /\ evidence_package = NoPackage
    /\ xmtp_messages = <<>>
    /\ thread_root_valid = "unbound"
    /\ causality_valid = "unbound"
    /\ signatures_valid = "unbound"
    /\ errors = <<>>
    /\ scores = EmptyDict
    /\ stages = {}
    /\ fetch_mode = ""
    /\ result = None

Init == AuditInit /\ ManagerIdle /\ RewardIdle /\ GraphIdle

Next ==
    \/ FetchEvidencePackage
    \/ FetchXmtpThread
    \/ VerifyThreadRoot
    \/ VerifyCausality
    \/ VerifySignatures
    \/ ComputeScores
    \/ BuildReport

Spec == Init /\ [][Next]_vars

-----------------------------------------------------------------------------
\* What the causal audit is meant to establish

Range(s) == {s[i] : i \in 1..Len(s)}

\* Following parent ids from cur leads back to the message named start
RECURSIVE ReturnsTo(_, _, _, _)
ReturnsTo(msgs, start, cur, fuel) ==
    LET parent == MessageMap(msgs, cur).parent_id
    IN  IF ~Truthy(parent) \/ ~HasId(msgs, parent) THEN FALSE
        ELSE IF parent = start THEN TRUE
        ELSE IF fuel = 0 THEN FALSE
        ELSE ReturnsTo(msgs, start, parent, fuel - 1)

Acyclic(msgs) ==
    \A i \in 1..Len(msgs) : ~ReturnsTo(msgs, msgs[i].id, msgs[i].id, Len(msgs))

ParentsResolve(msgs) ==
    \A i \in 1..Len(msgs) :
        (msgs[i].parent_id # None) => HasId(msgs, msgs[i].parent_id)

TimestampsMonotone(msgs) ==
    \A i \in 1..Len(msgs) :
        (msgs[i].parent_id # None /\ HasId(msgs, msgs[i].parent_id)) =>
            msgs[i].timestamp >= MessageMap(msgs, msgs[i].parent_id).timestamp

\* verify(node): a message without a signature does not verify
SignatureVerifies(m) == m.signature # None

Returned == pc = "done"
Fetched == ~evidence_package.empty

\* The thread fetch failed: a raise on the way, or no manager or client
ThreadFetchFailed == fetch_mode = "failed"

\* C1: the audit passes if and only if the root check, the causality check
\* and the signature check were performed and succeeded and the scoring
\* completed.
C1_PassedIffAllFourChecks ==
    Returned =>
        (result.audit_passed <=>
            /\ "verify_root" \in stages /\ thread_root_valid = "True"
            /\ "verify_causality" \in stages /\ causality_valid = "True"
            /\ "verify_signatures" \in stages /\ signatures_valid = "True"
            /\ "build_report" \in stages)

\* C2: verify_causality accepts a thread only if its parent relation is
\* acyclic, every non-null parent resolves and no message is older than its
\* parent.
C2_AcceptedThreadIsCausal ==
    causality_valid = "True" =>
        /\ Acyclic(xmtp_messages)
        /\ ParentsResolve(xmtp_messages)
        /\ TimestampsMonotone(xmtp_messages)

\* C3: an audit over a thread with a message whose signature is missing or
\* invalid does not pass, reports signatures_valid False and lists a
\* signature error.
C3_BadSignatureFailsAudit ==
    (Returned /\ Fetched /\ \E i \in 1..Len(xmtp_messages) : ~SignatureVerifies(xmtp_messages[i])) =>
        /\ ~result.audit_passed
        /\ signatures_valid = "False"
        /\ "Signature verification failed" \in Range(result.errors)

\* C6: whenever the package was fetched, the returned report holds the
\* result of each stage and the scores hold one vector per declared
\* participant.
C6_ReportAlwaysComplete ==
    (Returned /\ Fetched) =>
        /\ {"thread_root_valid", "causality_valid", "signatures_valid"}
              \subseteq DOMAIN result.audit_report
        /\ DOMAIN result.scores = AgentIds(ParticipantsOf(evidence_package))

\* C7: once the package is fetched every later stage runs, and the returned
\* errors hold an entry for every stage that failed.
C7_AllFailuresListed ==
    (Returned /\ Fetched) =>
        /\ {"verify_signatures", "compute_scores"} \subseteq stages
        /\ xmtp_messages # <<>> => "verify_causality" \in stages
        /\ (xmtp_messages # <<>> /\ Truthy(evidence_package.thread_root))
              => "verify_root" \in stages
        /\ thread_root_valid = "False" => "Thread root mismatch" \in Range(result.errors)
        /\ causality_valid = "False" => "Causality check failed" \in Range(result.errors)
        /\ signatures_valid = "False"
              => "Signature verification failed" \in Range(result.errors)

\* C8: when the package cannot be fetched the audit returns at once: not
\* passed, the fetch error alone, no scores, no report, and no later stage
\* has run.
C8_FetchFailureReturnsAtOnce ==
    (Returned /\ evidence_package.empty) =>
        /\ ~result.audit_passed
        /\ result.errors = <<"Failed to fetch evidence package">>
        /\ result.data_hash = Zero32
        /\ DOMAIN result.scores = {}
        /\ DOMAIN result.audit_report = {}
        /\ stages = {"fetch_package"}
        /\ xmtp_messages = <<>> /\ fetch_mode = ""

\* Reached for C8: the storage raised although it holds a package
C8_Witness == Returned /\ evidence_package.empty /\ ~stored.empty

\* C9: when the fetch of a declared thread fails, the audit does not pass
\* and the failure is among the returned errors.
C9_ThreadFetchFailureReported ==
    (Returned /\ Fetched /\ ThreadFetchFailed) =>
        /\ ~result.audit_passed
        /\ result.errors # <<>>

\* The positions of perform_causal_audit, in the order of the code; an
\* exception that left the function would be none of them
AuditPositions ==
    <<"start", "fetch_thread", "verify_root", "verify_causality", "verify_signatures",
      "compute_scores", "build_report", "done">>

AuditRank(p) == CHOOSE i \in 1..Len(AuditPositions) : AuditPositions[i] = p

-----------------------------------------------------------------------------
\* compute_thread_root applied to a message list and to a reordering of it

AuditIdle ==
    /\ xmtp_manager = TRUE
    /\ conversation = <<>>
    /\ stored = NoPackage
    /\ custom_dimensions = None
    /\ pc = "idle"
    /\ evidence_package = NoPackage
    /\ xmtp_messages = <<>>
    /\ thread_root_valid = "unbound"
    /\ causality_valid = "unbound"
    /\ signatures_valid = "unbound"
    /\ errors = <<>>
    /\ scores = EmptyDict
    /\ stages = {}
    /\ fetch_mode = ""
    /\ result = None

\* Message lists with pairwise distinct ids, in any order
ListBodies == [timestamp : 0..MaxTime, parent_id : {None, MsgId(1)}]

DistinctIdLists(longest) ==
    UNION {
        {[i \in 1..n |-> Message(MsgId(ids[i]), <<"0", "x", "A">>, ContentObject,
                                 b[i].timestamp, b[i].parent_id, None, None)] :
            ids \in {f \in [1..n -> 1..longest] : \A i, j \in 1..n : f[i] = f[j] => i = j},
            b \in [1..n -> ListBodies]} :
        n \in 0..longest}

Orderings(s) == {[i \in 1..Len(s) |-> s[p[i]]] : p \in Permutations(1..Len(s))}

Called(name) == name \in DOMAIN outputs

RootInit ==
    /\ AuditIdle /\ RewardIdle /\ GraphIdle
    /\ messages \in DistinctIdLists(MaxList)
    /\ permuted = messages
    /\ tampered = <<>>
    /\ outputs = EmptyDict
    /\ hash_list = <<>>

\* The caller hands the same messages over in another order
Reorder ==
    /\ ~Called("root")
    /\ permuted = messages
    /\ permuted' \in Orderings(messages) \ {messages}
    /\ UNCHANGED <<messages, tampered, outputs, hash_list>>
    /\ UNCHANGED <<auditVars, rewardVars, graphVars>>

ComputeThreadRoot ==
    /\ ~Called("root")
    /\ outputs' = [root |-> compute_thread_root(messages),
                   root_permuted |-> compute_thread_root(permuted)]
    /\ UNCHANGED <<messages, permuted, tampered, hash_list>>
    /\ UNCHANGED <<auditVars, rewardVars, graphVars>>

RootNext == Reorder \/ ComputeThreadRoot

SpecRoot == RootInit /\ [][RootNext]_vars

\* C4: for messages with pairwise distinct ids, compute_thread_root returns
\* the same root for the list and for every reordering of it.
C4_RootIsOrderIndependent ==
    Called("root") => outputs.root = outputs.root_permuted

\* Reached for C4: the root of a reordered list of at least two messages,
\* two of which carry the same timestamp
C4_Witness ==
    /\ Called("root")
    /\ permuted # messages
    /\ \E i, j \in 1..Len(messages) : i # j /\ messages[i].timestamp = messages[j].timestamp

-----------------------------------------------------------------------------
\* compute_vlc applied to a fetched thread and to the same thread with one
\* message altered

VlcInit ==
    /\ AuditIdle /\ RewardIdle /\ GraphIdle
    /\ messages \in {get_thread("ok", c) :
                        c \in UNION {Conversations(n, AllContents) : n \in 0..MaxMsgs}}
    /\ permuted = <<>>
    /\ tampered = messages
    /\ outputs = EmptyDict
    /\ hash_list = <<>>

OtherAuthor(a) == IF a = <<"0", "x", "A">> THEN <<"0", "x", "B">> ELSE <<"0", "x", "A">>

\* One field of one message is altered
Tamper ==
    /\ ~Called("vlc")
    /\ tampered = messages
    /\ \E j \in 1..Len(messages) :
          \/ tampered' = [messages EXCEPT ![j].author = OtherAuthor(@)]
          \/ tampered' = [messages EXCEPT ![j].timestamp = @ + 1]
          \/ tampered' = [messages EXCEPT ![j].id = @ \o <<"x">>]
          \/ tampered' = [messages EXCEPT ![j].content = ContentNumber]
    /\ UNCHANGED <<messages, permuted, outputs, hash_list>>
    /\ UNCHANGED <<auditVars, rewardVars, graphVars>>

\* The clock of message i, computed in both threads
ComputeVlc ==
    /\ ~Called("vlc")
    /\ \E i \in 1..Len(messages) :
          outputs' = [index |-> i,
                      vlc |-> compute_vlc(messages[i], messages),
                      vlc_tampered |-> compute_vlc(tampered[i], tampered)]
    /\ UNCHANGED <<messages, permuted, tampered, hash_list>>
    /\ UNCHANGED <<auditVars, rewardVars, graphVars>>

VlcNext == Tamper \/ ComputeVlc

SpecVlc == VlcInit /\ [][VlcNext]_vars

\* Message j is a parent, grandparent, ... of message i, and another message
IsAncestor(msgs, j, i) ==
    /\ msgs[j].id # msgs[i].id
    /\ ReturnsTo(msgs, msgs[j].id, msgs[i].id, Len(msgs))

\* C5: altering the author, timestamp, id or content of an ancestor of a
\* message changes the VLC computed for that message.
C5_VlcBoundToAncestors ==
    Called("vlc") =>
        \A j \in 1..Len(messages) :
            (tampered[j] # messages[j] /\ IsAncestor(messages, j, outputs.index))
                => outputs.vlc # outputs.vlc_tampered

-----------------------------------------------------------------------------
\* compute_final_rewards (test_contribution_scoring_integration.py)

\* Python floats are fixed-point numbers with Unit steps per whole; a
\* quotient is rounded to the nearest step
Unit == 1000

RoundDiv(a, b) == (2 * a + b) \div (2 * b)

\* contribution_weights.get(agent_id, 0.0)
Get(dict, key) == IF key \in DOMAIN dict THEN dict[key] ELSE 0

RECURSIVE SumOver(_, _)
SumOver(f, keys) ==
    IF keys = {} THEN 0
    ELSE LET k == CHOOSE k \in keys : TRUE IN f[k] + SumOver(f, keys \ {k})

\* final_scores[agent_id] = quality * contribution, in 1/Unit^2
FinalScores(qs, ws) == [a \in DOMAIN qs |-> qs[a] * Get(ws, a)]

\* Raised by a float division whose divisor is zero
ZeroDivisionError == -1

\* a / b on floats
Divide(a, b) == IF b = 0 THEN ZeroDivisionError ELSE RoundDiv(a, b)

\* The payout computed by the division whatever the total is
PayoutUnguarded(final_score, total_final_score, escrow) ==
    LET share == Divide(final_score * Unit, total_final_score)
    IN  IF share = ZeroDivisionError THEN ZeroDivisionError ELSE share * escrow

\* reward = (final_score / total_final_score) * total_escrow when the total
\* is positive, else 0.0
Payout(final_score, total_final_score, escrow) ==
    IF total_final_score > 0
    THEN Divide(final_score * Unit, total_final_score) * escrow
    ELSE 0

\* The split normalised by the sum of the qualities instead of the sum of
\* the combined scores
compute_final_rewards_by_quality(qs, ws, escrow) ==
    LET final_scores == FinalScores(qs, ws)
        total_quality == SumOver(qs, DOMAIN qs) * Unit
    IN  [a \in DOMAIN qs |->
            IF total_quality > 0
            THEN RoundDiv(final_scores[a] * Unit, total_quality) * escrow
            ELSE 0]

\* rewards, in 1/Unit of the currency
compute_final_rewards(qs, ws, escrow) ==
    LET final_scores == FinalScores(qs, ws)
        total_final_score == SumOver(final_scores, DOMAIN final_scores)
    IN  [a \in DOMAIN qs |-> Payout(final_scores[a], total_final_score, escrow)]

AgentName(i) == <<"0", "x">> \o Decimal(i)

\* Qualities in [0, 1] and weights >= 0: 0, 1/3, 1/2 and 1
Levels == {0, Unit \div 3, Unit \div 2, Unit}

RewardInit ==
    /\ AuditIdle /\ ManagerIdle /\ GraphIdle
    /\ \E n \in 1..MaxAgents :
          /\ quality_scalars \in [{AgentName(i) : i \in 1..n} -> Levels]
          /\ \E known \in SUBSET {AgentName(i) : i \in 1..n} :
                contribution_weights \in [known -> Levels]
    /\ total_escrow \in 0..MaxBudget
    /\ rewards = EmptyDict

ComputeFinalRewards ==
    /\ DOMAIN rewards = {}
    /\ rewards' = compute_final_rewards(quality_scalars, contribution_weights, total_escrow)
    /\ UNCHANGED <<quality_scalars, contribution_weights, total_escrow>>
    /\ UNCHANGED <<auditVars, managerVars, graphVars>>

RewardNext == ComputeFinalRewards

SpecRewards == RewardInit /\ [][RewardNext]_vars

\* The tolerance of the reward tests: one cent
Cent == Unit \div 100

Abs(x) == IF x < 0 THEN -x ELSE x

TotalFinalScore ==
    SumOver(FinalScores(quality_scalars, contribution_weights), DOMAIN quality_scalars)

-----------------------------------------------------------------------------
\* DKG.compute_contribution_weights (chaoschain_sdk/dkg.py)
\* A graph is the list of its nodes in insertion order; a node is named by
\* its position and names its parents among the nodes before it.

DkgAuthors == {<<"0", "x", "A">>, <<"0", "x", "B">>, <<"0", "x", "C">>}

DKGNode(author, parents) == [author |-> author, parents |-> parents]

\* Number of directed paths of len edges from s to t (edges run parent -> child)
RECURSIVE NumPaths(_, _, _, _)
NumPaths(g, s, t, len) ==
    IF len = 0 THEN (IF s = t THEN 1 ELSE 0)
    ELSE LET ps == g[t].parents
             RECURSIVE Over(_)
             Over(S) == IF S = {} THEN 0
                        ELSE LET q == CHOOSE q \in S : TRUE
                             IN  NumPaths(g, s, q, len - 1) + Over(S \ {q})
         IN  Over(ps)

Reaches(g, s, t) == \E len \in 0..(Len(g) - 1) : NumPaths(g, s, t, len) > 0

\* Length of a shortest path from s to t, which reaches t
Dist(g, s, t) == CHOOSE len \in 0..(Len(g) - 1) :
                    /\ NumPaths(g, s, t, len) > 0
                    /\ \A k \in 0..(len - 1) : NumPaths(g, s, t, k) = 0

\* Number of shortest paths from s to t
Sigma(g, s, t) == NumPaths(g, s, t, Dist(g, s, t))

\* Number of shortest paths from s to t through v
SigmaThrough(g, s, t, v) ==
    IF Reaches(g, s, v) /\ Reaches(g, v, t) /\ Dist(g, s, v) + Dist(g, v, t) = Dist(g, s, t)
    THEN Sigma(g, s, v) * Sigma(g, v, t)
    ELSE 0

RECURSIVE RatSum(_, _)
RatSum(f, keys) ==
    IF keys = {} THEN <<0, 1>>
    ELSE LET k == CHOOSE k \in keys : TRUE IN RatAdd(f[k], RatSum(f, keys \ {k}))

\* Unweighted betweenness centrality of node v
Betweenness(g, v) ==
    LET pairs == {st \in (DOMAIN g) \X (DOMAIN g) :
                     /\ st[1] # st[2] /\ st[1] # v /\ st[2] # v
                     /\ Reaches(g, st[1], st[2])}
        part == [st \in pairs |->
                    Rat(SigmaThrough(g, st[1], st[2], v), Sigma(g, st[1], st[2]))]
    IN  RatSum(part, pairs)

DkgRoots(g) == {i \in DOMAIN g : g[i].parents = {}}
DkgTerminals(g) == {i \in DOMAIN g : \A j \in DOMAIN g : i \notin g[j].parents}

\* Number of paths of any length from a node of S to a node of T
AllPaths(g, S, T) ==
    LET triples == S \X T \X (0..(Len(g) - 1))
        count == [x \in triples |-> <<NumPaths(g, x[1], x[2], x[3]), 1>>]
    IN  RatSum(count, triples)[1]

\* Number of root-to-terminal paths passing through node v
PathCount(g, v) == AllPaths(g, DkgRoots(g), {v}) * AllPaths(g, {v}, DkgTerminals(g))

NodeWeight(g, m, v) ==
    IF m = "betweenness" THEN Betweenness(g, v) ELSE <<PathCount(g, v), 1>>

DkgAuthorsOf(g) == {g[i].author : i \in DOMAIN g}

\* Sum per author of the weights of the author's nodes
AuthorWeight(g, m, a) ==
    LET mine == {i \in DOMAIN g : g[i].author = a}
    IN  RatSum([i \in mine |-> NodeWeight(g, m, i)], mine)

\* Normalised across authors; all zero when no node carries weight
compute_contribution_weights(g, m) ==
    LET raw == [a \in DkgAuthorsOf(g) |-> AuthorWeight(g, m, a)]
        total == RatSum(raw, DOMAIN raw)
    IN  [a \in DOMAIN raw |-> IF total[1] > 0 THEN RatDiv(raw[a], total) ELSE <<0, 1>>]

Methods == {"betweenness", "path_count"}

\* Graphs of n nodes: every parent is an earlier node
Graphs(n) ==
    {g \in [1..n -> [author : DkgAuthors, parents : SUBSET (1..n)]] :
        \A i \in 1..n : \A q \in g[i].parents : q < i}

AttributionInit ==
    /\ AuditIdle /\ ManagerIdle /\ RewardIdle /\ ConsensusIdle /\ UtilsIdle
    /\ RootCheckIdle /\ LoopIdle
    /\ dkg \in UNION {Graphs(n) : n \in 1..MaxNodes}
    /\ method = ""
    /\ weights = EmptyDict

ComputeContributionWeights ==
    /\ method = ""
    /\ \E m \in Methods :
          /\ method' = m
          /\ weights' = compute_contribution_weights(dkg, m)
    /\ UNCHANGED dkg
    /\ UNCHANGED <<auditVars, managerVars, rewardVars, consensusVars, utilsVars,
                   rootCheckVars, loopVars>>

AttributionNext == ComputeContributionWeights

SpecAttribution == AttributionInit /\ [][AttributionNext]_vars

\* C12: for both methods and every non-empty graph, the weights hold one
\* non-negative entry per author and sum to 1.
C12_WeightsSumToOne ==
    method # "" =>
        /\ DOMAIN weights = DkgAuthorsOf(dkg)
        /\ \A a \in DOMAIN weights : weights[a][1] >= 0
        /\ RatSum(weights, DOMAIN weights) = <<1, 1>>

-----------------------------------------------------------------------------
\* Consensus over the score vectors revealed by the verifiers

RatSub(a, b) == Rat(a[1] * b[2] - b[1] * a[2], a[2] * b[2])
RatAbs(a) == IF a[1] < 0 THEN <<-a[1], a[2]>> ELSE a

RECURSIVE InsertRat(_, _)
InsertRat(x, s) ==
    IF s = <<>> THEN <<x>>
    ELSE IF RatLeq(x, Head(s)) THEN <<x>> \o s
    ELSE <<Head(s)>> \o InsertRat(x, Tail(s))

RECURSIVE SortedRats(_)
SortedRats(s) == IF s = <<>> THEN <<>> ELSE InsertRat(Head(s), SortedRats(Tail(s)))

\* Median of a non-empty list; the mean of the two middle values when the
\* length is even
Median(values) ==
    LET s == SortedRats(values)
        n == Len(s)
    IN  IF n % 2 = 1 THEN s[(n + 1) \div 2]
        ELSE RatDiv(RatAdd(s[n \div 2], s[n \div 2 + 1]), <<2, 1>>)

\* Absolute deviation of each value from the median
Deviations(values) == [i \in DOMAIN values |-> RatAbs(RatSub(values[i], Median(values)))]

\* Median absolute deviation
MAD(values) == Median(Deviations(values))

\* Every verifier counts, whatever its deviation
IsInlierAlways(deviation, mad, k) == TRUE

\* Inlier: the deviation is at most k times the MAD
IsInlier(deviation, mad, k) == RatLeq(deviation, RatScale(k, mad))

\* One dimension: the outliers and the stake-weighted average of the inliers
AggregateDimension(subs, d, k) ==
    LET values == [i \in DOMAIN subs |-> <<subs[i].scores[d], 1>>]
        devs == Deviations(values)
        mad == MAD(values)
        inliers == {i \in DOMAIN subs : IsInlier(devs[i], mad, k)}
        weighted == [i \in inliers |-> <<subs[i].stake * subs[i].scores[d], 1>>]
        stakes == [i \in inliers |-> <<subs[i].stake, 1>>]
    IN  [score |-> RatDiv(RatSum(weighted, inliers), RatSum(stakes, inliers)),
         outliers |-> (DOMAIN subs) \ inliers]

Dimensions == 1..5

\* The consensus of all dimensions
Aggregate(subs, k) == [d \in Dimensions |-> AggregateDimension(subs, d, k)]

\* The score vectors of the verifiers: two close ones and a far one
CloseVectorA == <<80, 80, 80, 80, 80>>
CloseVectorB == <<82, 78, 81, 79, 80>>
FarVector == <<10, 10, 10, 10, 10>>
ScoreVectors == {CloseVectorA, CloseVectorB, FarVector}

\* The configured multiples of the MAD
MadMultiples == {1, 2, 3}

ConsensusInit ==
    /\ AuditIdle /\ ManagerIdle /\ RewardIdle /\ AttributionIdle /\ UtilsIdle
    /\ RootCheckIdle /\ LoopIdle
    /\ \E n \in 1..MaxVerifiers :
          submissions \in [1..n -> [stake : 1..MaxStake, scores : ScoreVectors]]
    /\ mad_multiple \in MadMultiples
    /\ consensus = <<>>

\* The epoch is closed: the revealed vectors are aggregated
CloseEpoch ==
    /\ consensus = <<>>
    /\ consensus' = Aggregate(submissions, mad_multiple)
    /\ UNCHANGED <<submissions, mad_multiple>>
    /\ UNCHANGED <<auditVars, managerVars, rewardVars, attributionVars, utilsVars,
                   rootCheckVars, loopVars>>

ConsensusNext == CloseEpoch

SpecConsensus == ConsensusInit /\ [][ConsensusNext]_vars

\* The submissions with the stake of verifier i replaced
WithStake(subs, i, stake) == [subs EXCEPT ![i].stake = stake]

\* The three submissions of the scenario, in this order, whatever the stakes
IsScenario ==
    /\ Len(submissions) = 3
    /\ submissions[1].scores = CloseVectorA
    /\ submissions[2].scores = CloseVectorB
    /\ submissions[3].scores = FarVector

\* C13: per dimension an outlier contributes nothing to the aggregate (the
\* aggregate is the same whatever the outlier's stake), and for the three
\* submissions of the scenario the third verifier is an outlier in every
\* dimension and the aggregate is within 1 of the mean of the first two.
C13_OutliersAreExcluded ==
    consensus # <<>> =>
        /\ \A d \in Dimensions : \A i \in consensus[d].outliers : \A stake \in 1..(MaxStake + 1) :
              Aggregate(WithStake(submissions, i, stake), mad_multiple)[d] = consensus[d]
        /\ IsScenario =>
              \A d \in Dimensions :
                 /\ consensus[d].outliers = {3}
                 /\ RatLeq(RatAbs(RatSub(consensus[d].score,
                                         <<CloseVectorA[d] + CloseVectorB[d], 2>>)), <<1, 1>>)

\* Reached for C13: the scenario has been aggregated with unequal stakes
C13_Witness ==
    /\ consensus # <<>>
    /\ IsScenario
    /\ submissions[3].stake > submissions[1].stake

-----------------------------------------------------------------------------
\* DKGUtils (chaoschain_agents/base/dkg.py).  add_evidence_package reads
\* evidence_id, content_hash, timestamp, agent_id, task_type, reasoning,
\* signature, sources, output_data and causal_links of its argument.

EvidencePrefix == <<"e", "v", "i", "d", "e", "n", "c", "e", ":">>
DataPrefix == <<"d", "a", "t", "a", ":">>
OutputPrefix == <<"o", "u", "t", "p", "u", "t", ":">>
EvidenceType == <<"e", "v", "i", "d", "e", "n", "c", "e">>

\* hashlib.sha256(x).hexdigest(): a str that names its preimage
Sha256Hex(x) == <<"#">> \o x

GraphNode(node_id, node_type, content_hash, timestamp, agent_id, metadata) ==
    [node_id |-> node_id, node_type |-> node_type, content_hash |-> content_hash,
     timestamp |-> timestamp, agent_id |-> agent_id, metadata |-> metadata]

GraphEdge(from_node, to_node, edge_type, metadata) ==
    [from_node |-> from_node, to_node |-> to_node, edge_type |-> edge_type,
     metadata |-> metadata]

CausalLink(source_type, source_id, relationship) ==
    [source_type |-> source_type, source_id |-> source_id, relationship |-> relationship]

\* dict[key] = value
Put(dict, key, value) ==
    [k \in DOMAIN dict \cup {key} |-> IF k = key THEN value ELSE dict[k]]

\* datetime.now(): later at every call
Now == Len(evidence) + 1

\* The state of a DKGUtils object
Graph(ns, es, contributions) == [nodes |-> ns, edges |-> es, contributions |-> contributions]

\* A link that creates no node for a target that is missing
_add_causal_link_no_placeholder(g, evidence_node_id, link, now) ==
    LET target_node_id == link.source_type \o <<":">> \o link.source_id
        edge == IF link.relationship \in {"input", "builds_on", "reference"}
                THEN GraphEdge(target_node_id, evidence_node_id, link.relationship, <<>>)
                ELSE GraphEdge(evidence_node_id, target_node_id, link.relationship, <<>>)
    IN  Graph(g.nodes, Append(g.edges, edge), g.contributions)

\* _add_causal_link
_add_causal_link(g, evidence_node_id, link, now) ==
    LET target_node_id == link.source_type \o <<":">> \o link.source_id
        target_node == GraphNode(target_node_id, link.source_type,
                                 Sha256Hex(link.source_id), now, None,
                                 [source_id |-> link.source_id, external |-> TRUE])
        ns == IF target_node_id \notin DOMAIN g.nodes
              THEN Put(g.nodes, target_node_id, target_node)
              ELSE g.nodes
        edge == IF link.relationship \in {"input", "builds_on", "reference"}
                THEN GraphEdge(target_node_id, evidence_node_id, link.relationship, <<>>)
                ELSE GraphEdge(evidence_node_id, target_node_id, link.relationship, <<>>)
    IN  Graph(ns, Append(g.edges, edge), g.contributions)

\* The loop over evidence.sources, from index i on
RECURSIVE AddSources(_, _, _, _)
AddSources(g, e, evidence_node_id, i) ==
    IF i > Len(e.sources) THEN g
    ELSE LET source == e.sources[i]
             source_node_id == DataPrefix \o Sha256Hex(source)
             source_node == GraphNode(source_node_id, "data", Sha256Hex(source),
                                      e.timestamp, None, [source |-> source])
             ns == IF source_node_id \notin DOMAIN g.nodes
                   THEN Put(g.nodes, source_node_id, source_node)
                   ELSE g.nodes
             edge == GraphEdge(source_node_id, evidence_node_id, "input", <<i - 1>>)
         IN  AddSources(Graph(ns, Append(g.edges, edge), g.contributions),
                        e, evidence_node_id, i + 1)

\* The loop over evidence.causal_links, from index i on
RECURSIVE AddLinks(_, _, _, _, _)
AddLinks(g, e, evidence_node_id, i, now) ==
    IF i > Len(e.causal_links) THEN g
    ELSE AddLinks(_add_causal_link(g, evidence_node_id, e.causal_links[i], now),
                  e, evidence_node_id, i + 1, now)

EvidenceNodeId(e) == EvidencePrefix \o e.evidence_id

\* add_evidence_package: the graph after the call
add_evidence_package(g, e, now) ==
    LET evidence_node_id == EvidenceNodeId(e)
        evidence_node == GraphNode(evidence_node_id, "evidence", e.content_hash,
                                   e.timestamp, e.agent_id,
                                   [reasoning |-> e.reasoning])
        g1 == Graph(Put(g.nodes, evidence_node_id, evidence_node), g.edges,
                    Put(g.contributions, e.agent_id,
                        Append(IF e.agent_id \in DOMAIN g.contributions
                               THEN g.contributions[e.agent_id] ELSE <<>>,
                               evidence_node_id)))
        g2 == AddSources(g1, e, evidence_node_id, 1)
        output_node_id == OutputPrefix \o e.evidence_id
        output_node == GraphNode(output_node_id, "data", Sha256Hex(e.output_data),
                                 e.timestamp, e.agent_id,
                                 [output_data |-> e.output_data])
        g3 == IF e.output_data # <<>>
              THEN Graph(Put(g2.nodes, output_node_id, output_node),
                         Append(g2.edges,
                                GraphEdge(evidence_node_id, output_node_id, "output", <<>>)),
                         g2.contributions)
              ELSE g2
    IN  AddLinks(g3, e, evidence_node_id, 1, now)

\* _check_temporal_consistency: no builds_on or reference edge leaves a node
\* that is newer than the node it enters
_check_temporal_consistency(g) ==
    \A i \in 1..Len(g.edges) :
        g.edges[i].edge_type \in {"builds_on", "reference"} =>
            ~(g.nodes[g.edges[i].from_node].timestamp > g.nodes[g.edges[i].to_node].timestamp)

EvidenceId(i) == <<"e">> \o Decimal(i)

\* Reasoning and output of an evidence: one without output, one with
EvidenceBodies ==
    {[reasoning |-> <<"r", "1">>, output_data |-> <<>>],
     [reasoning |-> <<"r", "2">>, output_data |-> <<"v">>]}

\* Links to an evidence that a call may have added, and to one never added
LinkChoices ==
    {<<>>} \cup
    {<<CausalLink(EvidenceType, id, rel)>> :
        id \in {EvidenceId(1), EvidenceId(MaxCalls + 1)},
        rel \in {"builds_on", "contradicts"}}

\* The arguments of add_evidence_package
EvidenceInputs ==
    {[evidence_id |-> id, content_hash |-> Sha256Hex(b.reasoning \o b.output_data),
      timestamp |-> 0, agent_id |-> agent, reasoning |-> b.reasoning,
      sources |-> srcs, output_data |-> b.output_data, causal_links |-> links] :
        id \in {EvidenceId(i) : i \in 1..MaxCalls}, agent \in {<<"1">>, <<"2">>},
        b \in EvidenceBodies, srcs \in {<<>>, <<<<"s", "1">>>>}, links \in LinkChoices}

UtilsInit ==
    /\ AuditIdle /\ ManagerIdle /\ RewardIdle /\ AttributionIdle /\ ConsensusIdle
    /\ RootCheckIdle /\ LoopIdle
    /\ UtilsIdle

AddEvidencePackage ==
    /\ Len(evidence) < MaxCalls
    /\ \E e \in EvidenceInputs :
          LET g == add_evidence_package(Graph(nodes, edges, agent_contributions), e, Now)
          IN  /\ nodes' = g.nodes
              /\ edges' = g.edges
              /\ agent_contributions' = g.contributions
              /\ evidence' = Append(evidence, e)
              /\ returned' = Append(returned, EvidenceNodeId(e))
    /\ UNCHANGED <<auditVars, managerVars, rewardVars, attributionVars, consensusVars,
                   rootCheckVars, loopVars>>

UtilsNext == AddEvidencePackage

SpecUtils == UtilsInit /\ [][UtilsNext]_vars

\* The errors the graph is to raise
ConflictingNode == <<"ConflictingNode">>
MissingParent == <<"MissingParent">>

\* The call made by this step, when the step is a call
Calls == Len(evidence') = Len(evidence) + 1
Argument == evidence'[Len(evidence')]

\* The earlier calls with the same evidence id
EarlierCalls(e) == {j \in 1..Len(evidence) : evidence[j].evidence_id = e.evidence_id}

\* The argument of the latest of them
Earlier(e) == evidence[CHOOSE j \in EarlierCalls(e) : \A k \in EarlierCalls(e) : k <= j]

GraphUnchanged == UNCHANGED <<nodes, edges, agent_contributions>>

\* C14: adding an evidence id again with identical content changes nothing;
\* adding it with different content fails with a conflict and changes
\* nothing.
C14_ReAddIsIdempotentOrConflict ==
    [][Calls =>
        /\ (EarlierCalls(Argument) # {} /\ Earlier(Argument) = Argument) => GraphUnchanged
        /\ (EarlierCalls(Argument) # {} /\ Earlier(Argument) # Argument)
              => (returned'[Len(returned')] = ConflictingNode /\ GraphUnchanged)]_vars

\* The node ids a call's causal links name
LinkTargets(e) ==
    {e.causal_links[i].source_type \o <<":">> \o e.causal_links[i].source_id :
        i \in 1..Len(e.causal_links)}

\* C15: adding an evidence that names a predecessor which is not in the
\* graph fails with a missing-parent error and changes nothing.
C15_MissingParentRejected ==
    [][(Calls /\ \E t \in LinkTargets(Argument) :
                    t \notin DOMAIN nodes /\ t # EvidenceNodeId(Argument))
        => (returned'[Len(returned')] = MissingParent /\ GraphUnchanged)]_vars

\* C27: every node id listed in agent_contributions[a] occurs once in that
\* list, is a key of nodes, and names an evidence node whose agent_id is a.
C27_ContributionsNameOwnEvidence ==
    \A a \in DOMAIN agent_contributions :
        \A i \in 1..Len(agent_contributions[a]) :
            LET id == agent_contributions[a][i]
            IN  /\ \A j \in 1..Len(agent_contributions[a]) :
                      agent_contributions[a][j] = id => j = i
                /\ id \in DOMAIN nodes
                /\ nodes[id].node_type = "evidence"
                /\ nodes[id].agent_id = a

\* C28: both endpoints of every edge are keys of nodes.
C28_EdgesJoinNodes ==
    \A i \in 1..Len(edges) :
        /\ edges[i].from_node \in DOMAIN nodes
        /\ edges[i].to_node \in DOMAIN nodes

\* Reached for C28: an edge to a target that was not in the graph when the
\* link was added, and one from a source and one to an output
C28_Witness ==
    /\ \E i \in 1..Len(edges) :
          /\ edges[i].to_node \in DOMAIN nodes
          /\ "external" \in DOMAIN nodes[edges[i].to_node].metadata
    /\ \E i \in 1..Len(edges) : edges[i].edge_type = "input"
    /\ \E i \in 1..Len(edges) : edges[i].edge_type = "output"

\* Every builds_on or reference link of a call names work that is not newer
\* than the linking evidence, as far as the work was handed over at all
LinksPointBack ==
    \A i, j \in 1..Len(evidence) :
        \A k \in 1..Len(evidence[i].causal_links) :
            LET link == evidence[i].causal_links[k]
            IN  (/\ link.relationship \in {"builds_on", "reference"}
                 /\ link.source_type \o <<":">> \o link.source_id = EvidenceNodeId(evidence[j]))
                => evidence[j].timestamp <= evidence[i].timestamp

\* C29: a graph built from evidence whose builds_on and reference links point
\* to work that is not newer than the linking evidence is temporally
\* consistent, also when a linked target is not in the graph yet.
C29_BackLinksAreConsistent ==
    LinksPointBack => _check_temporal_consistency(Graph(nodes, edges, agent_contributions))

-----------------------------------------------------------------------------
\* compute_multi_dimensional_scores and the topology helpers applied to a
\* message list

ParticipantC == [agent_id |-> None, address |-> <<"0", "x", "C">>]
\* A participant that declares neither agent_id nor address
ParticipantAnon == [agent_id |-> None, address |-> None]
ScoredParticipants == <<ParticipantA, ParticipantB, ParticipantC, ParticipantAnon>>

\* The parents a message may name: none, the empty str, a message of the
\* list, a message that is not in the list
ParentChoices(n) == {None, <<>>} \cup {MsgId(i) : i \in 1..(n + 1)}

Threads(n) ==
    {[i \in 1..n |-> Message(MsgId(i), b[i].author, ContentObject, b[i].timestamp,
                            b[i].parent_id, None, None)] :
        b \in [1..n -> [author : Authors, timestamp : 0..MaxTime,
                        parent_id : ParentChoices(n)]]}

\* The chain A -> B -> C of three authors
ChainABC ==
    <<Message(MsgId(1), <<"0", "x", "A">>, ContentObject, 0, None, None, None),
      Message(MsgId(2), <<"0", "x", "B">>, ContentObject, 0, MsgId(1), None, None),
      Message(MsgId(3), <<"0", "x", "C">>, ContentObject, 0, MsgId(2), None, None)>>

ScoredThreads(longest) == UNION {Threads(n) : n \in 0..longest} \cup {ChainABC}

ScoresInit ==
    /\ AuditIdle /\ RewardIdle /\ GraphIdle
    /\ messages \in ScoredThreads(MaxThread)
    /\ permuted = <<>>
    /\ tampered = <<>>
    /\ outputs = EmptyDict
    /\ hash_list = <<>>

\* compute_multi_dimensional_scores(messages, participants, custom_dimensions)
ComputeMultiDimensionalScores ==
    /\ outputs = EmptyDict
    /\ \E dims \in CustomDimensionChoices :
          LET raised == ScoresRaise(messages, ScoredParticipants)
          IN  outputs' = [custom_dimensions |-> dims,
                          raised |-> raised,
                          scores |-> IF raised THEN EmptyDict
                                     ELSE compute_multi_dimensional_scores(
                                              messages, ScoredParticipants, dims)]
    /\ UNCHANGED <<messages, permuted, tampered, hash_list>>
    /\ UNCHANGED <<auditVars, rewardVars, graphVars>>

\* The helpers, called for every participant and every message; a helper
\* that raises returns nothing
ComputeTopology ==
    /\ outputs = EmptyDict
    /\ LET ids == AgentIds(ScoredParticipants)
           raising == {a \in ids : DepthRaises(messages, a)}
           finite == {i \in 1..Len(messages) :
                         _get_message_depth(messages[i], messages) # RecursionError}
       IN  outputs' = [initiative |-> [a \in ids |-> _compute_initiative(messages, a)],
                       collaboration |-> [a \in ids |-> _compute_collaboration(messages, a)],
                       depth |-> [i \in finite |-> _get_message_depth(messages[i], messages)],
                       reasoning_depth |-> [a \in ids \ raising |->
                                               _compute_reasoning_depth(messages, a)]]
    /\ UNCHANGED <<messages, permuted, tampered, hash_list>>
    /\ UNCHANGED <<auditVars, rewardVars, graphVars>>

ScoresNext == ComputeMultiDimensionalScores \/ ComputeTopology

SpecScores == ScoresInit /\ [][ScoresNext]_vars

NumCustom(dims) == IF dims = None THEN 0 ELSE Len(dims)

\* C16: every returned score vector has length 5 + the number of requested
\* custom dimensions, compliance in fourth place, and entries in [0, 100].
C16_VectorShape ==
    (Called("scores") /\ ~outputs.raised) =>
        \A a \in DOMAIN outputs.scores :
            LET v == outputs.scores[a]
            IN  /\ Len(v) = 5 + NumCustom(outputs.custom_dimensions)
                /\ v[4] = <<100, 1>>
                /\ \A i \in 1..Len(v) : RatLeq(<<0, 1>>, v[i]) /\ RatLeq(v[i], <<100, 1>>)

\* C17: a participant without any message in the list has initiative 0,
\* also when the list is empty.
C17_NoMessageNoInitiative ==
    (Called("scores") /\ ~outputs.raised) =>
        \A a \in DOMAIN outputs.scores :
            AgentMessages(messages, a) = <<>> => outputs.scores[a][1] = <<0, 1>>

\* The positions of the messages attributed to an agent
Attributed(a) == {i \in 1..Len(messages) : IsSubstr(a, messages[i].author)}
ParentLess(a) == {i \in Attributed(a) : messages[i].parent_id = None}

\* C18: for a participant with attributed messages initiative is the
\* fraction of them without parent, collaboration the fraction with a
\* parent, and the two sum to 1; without attributed messages both are 0.
C18_InitiativeComplementsCollaboration ==
    Called("initiative") =>
        \A a \in DOMAIN outputs.initiative :
            LET n == Cardinality(Attributed(a))
                k == Cardinality(ParentLess(a))
            IN  IF n > 0
                THEN /\ outputs.initiative[a] = Rat(k, n)
                     /\ outputs.collaboration[a] = Rat(n - k, n)
                     /\ RatAdd(outputs.initiative[a], outputs.collaboration[a]) = <<1, 1>>
                ELSE /\ outputs.initiative[a] = <<0, 1>>
                     /\ outputs.collaboration[a] = <<0, 1>>

\* Reached for C18: a participant with a parentless message and a message
\* whose parent is the empty str
C18_Witness ==
    /\ Called("initiative")
    /\ \E a \in DOMAIN outputs.initiative :
          /\ ParentLess(a) # {}
          /\ \E i \in Attributed(a) : messages[i].parent_id = <<>>

\* The position the parent of message i resolves to
ParentOf(i) ==
    CHOOSE j \in 1..Len(messages) :
        /\ messages[j].id = messages[i].parent_id
        /\ \A k \in (j + 1)..Len(messages) : messages[k].id # messages[j].id

\* C19: where the depth is defined, a parentless message has depth 1 and a
\* message with a parent in the list has depth 1 + the depth of the parent;
\* the reasoning depth of a participant is min(mean depth / 10, 1); in the
\* chain A -> B -> C, A has initiative 1 and C the highest reasoning depth.
C19_DepthFollowsParents ==
    Called("depth") =>
        /\ \A i \in DOMAIN outputs.depth :
              /\ messages[i].parent_id = None => outputs.depth[i] = 1
              /\ (messages[i].parent_id # None /\ HasId(messages, messages[i].parent_id))
                    => /\ ParentOf(i) \in DOMAIN outputs.depth
                       /\ outputs.depth[i] = 1 + outputs.depth[ParentOf(i)]
        /\ \A a \in DOMAIN outputs.reasoning_depth :
              Attributed(a) # {} =>
                 outputs.reasoning_depth[a] =
                    RatMin(Rat(SumOver(outputs.depth, Attributed(a)),
                               10 * Cardinality(Attributed(a))), <<1, 1>>)
        /\ messages = ChainABC =>
              /\ outputs.initiative[<<"0", "x", "A">>] = <<1, 1>>
              /\ \A a \in {<<"0", "x", "A">>, <<"0", "x", "B">>} :
                    /\ RatLeq(outputs.reasoning_depth[a], outputs.reasoning_depth[<<"0", "x", "C">>])
                    /\ outputs.reasoning_depth[a] # outputs.reasoning_depth[<<"0", "x", "C">>]

\* Reached for C19: the depths of the chain A -> B -> C
C19_Witness ==
    /\ Called("depth")
    /\ messages = ChainABC
    /\ outputs.depth[3] = 3

-----------------------------------------------------------------------------
\* _compute_merkle_root applied to a list of hashes

\* The hashes of three messages
LeafHashes == {KeccakText(<<"m", "1">>), KeccakText(<<"m", "2">>), KeccakText(<<"m", "3">>)}

MerkleInit ==
    /\ AuditIdle /\ RewardIdle /\ GraphIdle
    /\ messages = <<>>
    /\ permuted = <<>>
    /\ tampered = <<>>
    /\ outputs = EmptyDict
    /\ hash_list \in UNION {[1..n -> LeafHashes] : n \in 1..MaxHashes}

ComputeMerkleRoot ==
    /\ ~Called("merkle_root")
    /\ outputs' = [merkle_root |-> _compute_merkle_root(hash_list)]
    /\ UNCHANGED <<messages, permuted, tampered, hash_list>>
    /\ UNCHANGED <<auditVars, rewardVars, graphVars>>

MerkleNext == ComputeMerkleRoot

SpecMerkle == MerkleInit /\ [][MerkleNext]_vars

RECURSIVE Pow2(_)
Pow2(k) == IF k = 0 THEN 1 ELSE 2 * Pow2(k - 1)

\* Height of the tree over n leaves
Height(n) == CHOOSE k \in 0..n : Pow2(k) >= n /\ \A j \in 0..(k - 1) : Pow2(j) < n

\* The root of the tree of height k whose leaves are s, read from the top:
\* the left half holds the first 2^(k-1) leaves, and a right half without
\* leaves repeats the left half
RECURSIVE Fold(_, _)
Fold(s, k) ==
    IF k = 0 THEN s[1]
    ELSE LET half == Pow2(k - 1)
             left == Fold(SubSeq(s, 1, IF Len(s) < half THEN Len(s) ELSE half), k - 1)
         IN  IF Len(s) > half
             THEN KeccakPair(left, Fold(SubSeq(s, half + 1, Len(s)), k - 1))
             ELSE KeccakPair(left, left)

\* A digest: 32 bytes
IsDigest(h) == h = Zero32 \/ (Len(h) \in {2, 3} /\ h[1] = "keccak")

\* C20: the Merkle root of a non-empty hash list is the binary fold of the
\* list in its order, an unpaired last hash paired with itself, a single
\* hash its own root, and the result is one digest.
C20_MerkleRootIsBinaryFold ==
    Called("merkle_root") =>
        /\ outputs.merkle_root = Fold(hash_list, Height(Len(hash_list)))
        /\ IsDigest(outputs.merkle_root)
        /\ Len(hash_list) = 1 => outputs.merkle_root = hash_list[1]
        /\ Len(hash_list) = 2 => outputs.merkle_root = KeccakPair(hash_list[1], hash_list[2])
        /\ Len(hash_list) = 3 =>
              outputs.merkle_root = KeccakPair(KeccakPair(hash_list[1], hash_list[2]),
                                               KeccakPair(hash_list[3], hash_list[3]))

\* Reached for C20: the root of three different hashes, the last one paired
\* with itself
C20_Witness ==
    /\ Called("merkle_root")
    /\ Len(hash_list) = 3
    /\ Cardinality({hash_list[i] : i \in 1..3}) = 3

\* The positions of the messages whose author is the agent
Authored(a) == {i \in 1..Len(messages) : messages[i].author = a}

\* C26: a message counts for the one participant whose identifier equals its
\* author: the initiative and the collaboration of a participant are the
\* fractions over the messages that participant authored, and both are 0 for
\* a participant that authored none.
C26_ScoresFromOwnMessagesOnly ==
    Called("initiative") =>
        \A a \in DOMAIN outputs.initiative :
            LET n == Cardinality(Authored(a))
                k == Cardinality({i \in Authored(a) : messages[i].parent_id = None})
            IN  /\ outputs.initiative[a] = (IF n = 0 THEN <<0, 1>> ELSE Rat(k, n))
                /\ outputs.collaboration[a] = (IF n = 0 THEN <<0, 1>> ELSE Rat(n - k, n))

\* C25: for a message list that verify_causality accepts, _get_message_depth
\* returns for every message, and the reasoning depth of every participant
\* has a value.
C25_DepthTerminatesOnAcceptedThread ==
    (Called("depth") /\ verify_causality(messages)) =>
        /\ DOMAIN outputs.depth = 1..Len(messages)
        /\ DOMAIN outputs.reasoning_depth = AgentIds(ScoredParticipants)

-----------------------------------------------------------------------------
\* compute_thread_root and reconstruct_dag applied to the same message list

\* The ids appended to dag[id]: the messages that name id as their parent, in
\* list order
RECURSIVE ChildIds(_, _)
ChildIds(msgs, id) ==
    IF msgs = <<>> THEN <<>>
    ELSE (IF Truthy(msgs[1].parent_id) /\ msgs[1].parent_id = id
          THEN <<msgs[1].id>> ELSE <<>>)
         \o ChildIds(Tail(msgs), id)

\* reconstruct_dag: {message_id: [child_ids]}
reconstruct_dag(msgs) ==
    [id \in {msgs[i].id : i \in 1..Len(msgs)} |-> ChildIds(msgs, id)]

DagInit ==
    /\ AuditIdle /\ RewardIdle /\ GraphIdle
    /\ messages \in UNION {Threads(n) : n \in 0..MaxMsgs}
    /\ permuted = messages
    /\ tampered = <<>>
    /\ outputs = EmptyDict
    /\ hash_list = <<>>

ReconstructDag ==
    /\ ~Called("dag")
    /\ outputs' = Put(outputs, "dag", reconstruct_dag(messages))
    /\ UNCHANGED <<messages, permuted, tampered, hash_list>>
    /\ UNCHANGED <<auditVars, rewardVars, graphVars>>

DagNext == ComputeThreadRoot \/ ReconstructDag

SpecDag == DagInit /\ [][DagNext]_vars

\* The nodes of the reconstructed graph, those that are nobody's child and
\* those without children
DagNodes == DOMAIN outputs.dag
DagRootNodes == {id \in DagNodes : \A p \in DagNodes : id \notin Range(outputs.dag[p])}
DagTerminalNodes == {id \in DagNodes : outputs.dag[id] = <<>>}

\* C23: for the empty message list compute_thread_root returns 32 zero bytes
\* and the reconstructed graph has no node, no root and no terminal.
C23_EmptyThread ==
    (messages = <<>> /\ Called("root") /\ Called("dag")) =>
        /\ outputs.root = Zero32
        /\ DagNodes = {}
        /\ DagRootNodes = {}
        /\ DagTerminalNodes = {}

\* Reached for C23: both functions were applied to the empty list
C23_Witness ==
    /\ messages = <<>>
    /\ Called("root")
    /\ Called("dag")

-----------------------------------------------------------------------------
\* _verify_thread_root applied to a declared root and to the same string with
\* letters in another case

HexCases == {"lower", "upper", "mixed"}

\* The strings a bundle declares as its root: the root of the thread or
\* another digest, with or without prefix, in any letter case
RootStrings(msgs) ==
    {Hex(p, d, c) : p \in {"", "0x", "0X"},
                    d \in {compute_thread_root(msgs), OtherDigest},
                    c \in HexCases}

\* The strings that differ from h only in the case of letters
Recasings(h) ==
    {Hex(p, HexDigits(h), c) : p \in (IF HexPrefix(h) = "" THEN {""} ELSE {"0x", "0X"}),
                               c \in HexCases}

RootCheckInit ==
    /\ AuditIdle /\ RewardIdle
    /\ AttributionIdle /\ ConsensusIdle /\ UtilsIdle /\ LoopIdle
    /\ messages \in DistinctIdLists(MaxMsgs)
    /\ permuted = <<>>
    /\ tampered = <<>>
    /\ outputs = EmptyDict
    /\ hash_list = <<>>
    /\ declared_root \in RootStrings(messages)
    /\ recased_root = declared_root

\* Letters of the declared root change case
Recase ==
    /\ ~Called("verdict")
    /\ recased_root = declared_root
    /\ recased_root' \in Recasings(declared_root) \ {declared_root}
    /\ UNCHANGED <<declared_root, managerVars>>
    /\ UNCHANGED <<auditVars, rewardVars, attributionVars, consensusVars, utilsVars, loopVars>>

\* _verify_thread_root(messages, expected_root), for both strings
VerifyDeclaredRoot ==
    /\ ~Called("verdict")
    /\ outputs' = [verdict |-> _verify_thread_root(messages, declared_root),
                   verdict_recased |-> _verify_thread_root(messages, recased_root)]
    /\ UNCHANGED <<messages, permuted, tampered, hash_list, rootCheckVars>>
    /\ UNCHANGED <<auditVars, rewardVars, attributionVars, consensusVars, utilsVars, loopVars>>

RootCheckNext == Recase \/ VerifyDeclaredRoot

SpecRootCheck == RootCheckInit /\ [][RootCheckNext]_vars

\* C21: the verdict of _verify_thread_root for a declared root string, with
\* or without prefix, is the same for every string that differs from it only
\* in the case of letters.
C21_RootCheckIgnoresCase ==
    Called("verdict") => outputs.verdict = outputs.verdict_recased

-----------------------------------------------------------------------------
\* verifier_agent_loop (examples/verifier_agent_example.py)

\* time.sleep(5)
Sleep == 5

\* current_block - 1000: how far back the first scan reaches
ScanBack == 1000

\* A work submission read from a WorkSubmitted event
Work(data_hash, block) == [data_hash |-> data_hash, block_number |-> block]

\* monitor_studio_for_work: the events of the blocks not scanned yet and the
\* block scanned last; after an exception nothing and the old block
monitor_studio_for_work(failed, last) ==
    IF failed THEN [work_submissions |-> <<>>, last_block |-> last]
    ELSE LET current_block == block_number
             from_block == IF last > 0 THEN last + 1 ELSE current_block - ScanBack
             InRange(ev) == from_block <= ev.block_number /\ ev.block_number <= current_block
         IN  [work_submissions |-> SelectSeq(events, InRange), last_block |-> current_block]

\* What happens to one work submission: the audit does not pass, or
\* commit_scores raises, or it returns
WorkOutcomes == {"audit_failed", "commit_failed", "committed"}

\* The for loop over work_submissions: the entries appended to
\* pending_reveals, with the time read after the commit
RECURSIVE Appended(_, _, _)
Appended(works, outcome, commit_time) ==
    IF works = <<>> THEN <<>>
    ELSE (IF outcome[1] = "committed"
          THEN <<[data_hash |-> works[1].data_hash, commit_time |-> commit_time,
                  work |-> works[1]]>>
          ELSE <<>>)
         \o Appended(Tail(works), Tail(outcome), commit_time)

\* The calls of commit_scores made by the for loop
RECURSIVE Commits(_, _, _)
Commits(works, outcome, at) ==
    IF works = <<>> THEN <<>>
    ELSE (IF outcome[1] = "audit_failed" THEN <<>>
          ELSE <<[data_hash |-> works[1].data_hash, time |-> at,
                  ok |-> outcome[1] = "committed"]>>)
         \o Commits(Tail(works), Tail(outcome), at)

\* list.remove(x): the first element equal to x is removed
RECURSIVE Remove(_, _)
Remove(list, x) ==
    IF list = <<>> THEN <<>>
    ELSE IF list[1] = x THEN Tail(list)
    ELSE <<list[1]>> \o Remove(Tail(list), x)

\* A pending reveal is attempted whatever the time
DueAtOnce(current_time, pending, delay) == TRUE

\* current_time - pending['commit_time'] >= reveal_delay
Due(current_time, pending, delay) == current_time - pending.commit_time >= delay

\* The for loop over pending_reveals[:]: what is left of pending_reveals and
\* the calls of reveal_scores; ok[i] tells whether the reveal of copy[i] returns
RECURSIVE RevealPass(_, _, _, _, _, _)
RevealPass(copy, ok, list, current_time, delay, nth) ==
    IF copy = <<>> THEN [pending_reveals |-> list, calls |-> <<>>]
    ELSE IF ~Due(current_time, copy[1], delay)
    THEN RevealPass(Tail(copy), Tail(ok), list, current_time, delay, nth)
    ELSE LET rest == RevealPass(Tail(copy), Tail(ok),
                                IF ok[1] THEN Remove(list, copy[1]) ELSE list,
                                current_time, delay, nth)
         IN  [pending_reveals |-> rest.pending_reveals,
              calls |-> <<[data_hash |-> copy[1].data_hash, time |-> current_time,
                           ok |-> ok[1], iteration |-> nth]>> \o rest.calls]

LoopInit ==
    /\ AuditIdle /\ ManagerIdle /\ RewardIdle
    /\ AttributionIdle /\ ConsensusIdle /\ UtilsIdle /\ RootCheckIdle
    /\ block_number = 0
    /\ events = <<>>
    /\ reveal_delay \in {k * Sleep : k \in 0..MaxDelay}
    /\ time_now = 0
    /\ last_block = 0
    /\ pending_reveals = <<>>
    /\ iteration = 0
    /\ stopped = FALSE
    /\ commit_log = <<>>
    /\ reveal_log = <<>>

\* The chain grows by a block, with or without a WorkSubmitted event in it
MineBlock ==
    /\ block_number < MaxBlock
    /\ block_number' = block_number + 1
    /\ \E submitted \in BOOLEAN :
          events' = IF submitted /\ Len(events) < MaxWorks
                    THEN Append(events, Work(Len(events) + 1, block_number + 1))
                    ELSE events
    /\ UNCHANGED <<reveal_delay, time_now, last_block, pending_reveals, iteration,
                   stopped, commit_log, reveal_log>>
    /\ UNCHANGED <<auditVars, managerVars, rewardVars, attributionVars, consensusVars,
                   utilsVars, rootCheckVars>>

\* One pass of the body of `while True`
LoopIteration ==
    /\ ~stopped
    /\ iteration < MaxIterations
    /\ \E failed \in BOOLEAN, elapsed \in 0..MaxElapsed :
          LET monitored == monitor_studio_for_work(failed, last_block)
              works == monitored.work_submissions
          IN  \E outcome \in [1..Len(works) -> WorkOutcomes] :
                LET current_time == time_now + elapsed
                    copy == pending_reveals \o Appended(works, outcome, current_time)
                IN  \E ok \in [1..Len(copy) -> BOOLEAN] :
                      LET pass == RevealPass(copy, ok, copy, current_time, reveal_delay,
                                             iteration + 1)
                      IN  /\ last_block' = monitored.last_block
                          /\ commit_log' = commit_log \o Commits(works, outcome, time_now)
                          /\ pending_reveals' = pass.pending_reveals
                          /\ reveal_log' = reveal_log \o pass.calls
                          /\ time_now' = current_time + Sleep
    /\ iteration' = iteration + 1
    /\ UNCHANGED <<block_number, events, reveal_delay, stopped>>
    /\ UNCHANGED <<auditVars, managerVars, rewardVars, attributionVars, consensusVars,
                   utilsVars, rootCheckVars>>

\* except KeyboardInterrupt
KeyboardInterrupt ==
    /\ ~stopped
    /\ stopped' = TRUE
    /\ UNCHANGED <<block_number, events, reveal_delay, time_now, last_block,
                   pending_reveals, iteration, commit_log, reveal_log>>
    /\ UNCHANGED <<auditVars, managerVars, rewardVars, attributionVars, consensusVars,
                   utilsVars, rootCheckVars>>

LoopNext == MineBlock \/ LoopIteration \/ KeyboardInterrupt

SpecLoop == LoopInit /\ [][LoopNext]_vars

\* C22: a reveal that failed once the reveal time was reached is not
\* attempted again in a later iteration of the loop.
C22_FailedRevealNotRetried ==
    \A i, j \in 1..Len(reveal_log) :
        (/\ i < j
         /\ ~reveal_log[i].ok
         /\ reveal_log[j].data_hash = reveal_log[i].data_hash)
        => reveal_log[j].iteration = reveal_log[i].iteration

\* C30: every reveal follows a commit of the same submission that returned,
\* by at least reveal_delay seconds, and nothing is revealed again after its
\* reveal returned.
C30_RevealFollowsCommit ==
    \A j \in 1..Len(reveal_log) :
        /\ \E c \in 1..Len(commit_log) :
              /\ commit_log[c].data_hash = reveal_log[j].data_hash
              /\ commit_log[c].ok
              /\ reveal_log[j].time - commit_log[c].time >= reveal_delay
        /\ \A i \in 1..(j - 1) :
              reveal_log[i].data_hash = reveal_log[j].data_hash => ~reveal_log[i].ok

\* Reached for C30: with a positive reveal_delay, one submission was revealed
\* at the second attempt and the commit of another one had failed
C30_Witness ==
    /\ reveal_delay > 0
    /\ \E c \in 1..Len(commit_log) : ~commit_log[c].ok
    /\ \E i, j \in 1..Len(reveal_log) :
          /\ i < j
          /\ reveal_log[i].data_hash = reveal_log[j].data_hash
          /\ ~reveal_log[i].ok
          /\ reveal_log[j].ok

====
